---- MODULE Spec2Model ----
(***************************************************************************)
(* Model of the Deluthium connector for Hummingbot                         *)
(* (packages/hummingbot-connector/deluthium_hummingbot/connector).         *)
(*                                                                         *)
(* Two components are modelled:                                            *)
(*  - DeluthiumAPIOrderBookDataSource: the indicative-price fetch, the     *)
(*    synthetic book and the snapshot polling coroutine;                   *)
(*  - DeluthiumExchange: the firm-quote order placement with its error     *)
(*    check, and the pair-listing calls.                                   *)
(*                                                                         *)
(* A coroutine is modelled by its position (the await it is suspended at); *)
(* one action is the synchronous run from one await to the next.           *)
(* Python strings that the code splits or rewrites are tuples of           *)
(* one-character strings; JSON values are records [t, n, d, s].            *)
(***************************************************************************)
EXTENDS Integers, Sequences, FiniteSets, TLC

\* ------------------------------------------------------------------ bounds

\* asyncio.Queue(maxsize) of the host: put_nowait raises QueueFull at maxsize.
QueueMax == 2
\* Polling cycles started after the first one.
MaxCycles == 2
\* time.time(), in whole seconds, runs over 0..MaxTime.
MaxTime == 1
\* Calls made on the connector in one behaviour.
MaxOps == 3
\* Characters of a symbol handed to the symbol conversions.
SymbolMaxLen == 4
\* The chain ids handed to the chain helpers: -1..ChainIdMax, and 8453 with
\* its neighbours.
ChainIdMax == 1000

\* ------------------------------------------------------------ Python bits

None == [some |-> FALSE, val |-> 0]

Some(v) == [some |-> TRUE, val |-> v]

\* "sep in s"
Contains(s, c) == \E i \in 1..Len(s) : s[i] = c

RECURSIVE SplitFrom(_, _, _, _, _)
SplitFrom(s, sep, i, cur, acc) ==
    IF i > Len(s) THEN Append(acc, cur)
    ELSE IF s[i] = sep THEN SplitFrom(s, sep, i + 1, <<>>, Append(acc, cur))
    ELSE SplitFrom(s, sep, i + 1, Append(cur, s[i]), acc)

\* str.split(sep): one part more than there are separators.
Split(s, sep) == SplitFrom(s, sep, 1, <<>>, <<>>)

\* Python >= 3.9 (deluthium_constants.py evaluates dict[int, str] at import):
\* asyncio.CancelledError derives from BaseException, so "except Exception"
\* does not catch it.
\* (before Python 3.8 it derived from Exception and was caught)
ExceptExceptionCatchesAll(exc) == exc # "none"

\* (a handler for aiohttp.ClientError only)
ExceptClientErrorCatches(exc) ==
    exc \in {"ClientConnectionError", "ClientResponseError", "ContentTypeError"}

ExceptExceptionCatches(exc) == exc \notin {"none", "CancelledError"}

\* ------------------------------------------------------------ JSON values

JAbsent == [t |-> "absent", n |-> 0, d |-> 0, s |-> ""]

JNull == [t |-> "null", n |-> 0, d |-> 0, s |-> ""]

\* the number n + d/10 (n >= 0 whenever d > 0)
JNum(n, d) == [t |-> "num", n |-> n, d |-> d, s |-> ""]

JStr(s) == [t |-> "str", n |-> 0, d |-> 0, s |-> s]

\* a JSON array of n elements
JList(n) == [t |-> "list", n |-> n, d |-> 0, s |-> ""]

\* a JSON number that json.loads reads as n times the smallest positive
\* double (5e-324 for n = 1, 1e-323 for n = 2)
JTiny(n) == [t |-> "tiny", n |-> n, d |-> 0, s |-> ""]

\* the literal NaN, which json.loads accepts
JNaN == [t |-> "nan", n |-> 0, d |-> 0, s |-> ""]

\* a JSON number beyond the range of a double (1e999), read as inf
JInf == [t |-> "inf", n |-> 1, d |-> 0, s |-> ""]

\* The decimal literals among the strings of the model: int(s) and float(s)
\* parse these and raise ValueError on every other string.
NumericLiterals == [s \in {"1004", "7", "600"} |-> IF s = "1004" THEN 1004 ELSE IF s = "7" THEN 7 ELSE 600]

\* Python truthiness of a parsed JSON value (None for an absent key).
Truthy(v) ==
    CASE v.t = "absent" -> FALSE
      [] v.t = "null" -> FALSE
      [] v.t = "num" -> v.n # 0 \/ v.d # 0
      [] v.t = "str" -> v.s # ""
      [] v.t = "list" -> v.n > 0
      [] v.t = "tiny" -> v.n # 0
      [] v.t \in {"nan", "inf"} -> TRUE

\* ------------------------------------------------------ floats and Decimals

\* SYNTHETIC_SPREAD_RATIO = Decimal("0.001") is 1 / SpreadDenominator.
SpreadDenominator == 1000

\* Finite numbers are counted in units of 1 / PriceUnit, so that a number
\* with one decimal digit times ratio / 2 is a whole number of units.
PriceUnit == 20 * SpreadDenominator

\* A float or a Decimal. A finite one is u / PriceUnit, or, when tiny,
\* u / PriceUnit times the smallest positive double (2^-1074): the doubles
\* of that scale are the whole multiples, u a multiple of PriceUnit.
Finite(u) == [kind |-> "finite", tiny |-> FALSE, u |-> u]

Tiny(u) == [kind |-> "finite", tiny |-> TRUE, u |-> u]

NaN == [kind |-> "nan", tiny |-> FALSE, u |-> 0]

Infinity == [kind |-> "inf", tiny |-> FALSE, u |-> 1]

\* q times the nearest whole number to u / q, ties to the even one
RoundHalfEven(u, q) ==
    LET f == u \div q
        r == u % q
    IN  IF 2 * r < q THEN f * q
        ELSE IF 2 * r > q THEN (f + 1) * q
        ELSE IF f % 2 = 0 THEN f * q ELSE (f + 1) * q

\* Decimal(str(x)): the shortest decimal that reads back as x. It is the
\* number itself for the decimals of the model, and within a small fraction
\* of a unit for the tiny ones (5E-324 for 4.94...e-324).
DecimalOfStr(x) == x

\* float(d) of a Decimal: the nearest double. Near the decimals of the model
\* doubles are 2^-43 apart or less, and each such decimal stands for the
\* double nearest to it (599.7 for Decimal("599.700")); a tiny value is
\* rounded to a whole multiple of the smallest double.
FloatOfDecimal(d) ==
    IF d.kind = "finite" /\ d.tiny THEN Tiny(RoundHalfEven(d.u, PriceUnit)) ELSE d

\* d * SYNTHETIC_SPREAD_RATIO / 2 (NaN and Infinity stay what they are)
HalfSpread(d) ==
    IF d.kind = "finite" THEN [d EXCEPT !.u = d.u \div (2 * SpreadDenominator)] ELSE d

\* a + k * b for Decimals of one scale: Infinity - Infinity signals
\* InvalidOperation, NaN gives NaN
DecimalAdd(a, k, b) ==
    IF a.kind = "nan" \/ b.kind = "nan" THEN [exc |-> "none", val |-> NaN]
    ELSE IF a.kind = "inf" /\ b.kind = "inf"
    THEN IF k < 0 THEN [exc |-> "InvalidOperation", val |-> NaN]
         ELSE [exc |-> "none", val |-> a]
    ELSE [exc |-> "none", val |-> [a EXCEPT !.u = a.u + k * b.u]]

\* The order of two floats; every comparison with NaN is false.
FloatRank(x) ==
    IF x.kind = "inf" THEN 2 * x.u
    ELSE IF x.tiny \/ x.u = 0 THEN 0
    ELSE IF x.u > 0 THEN 1 ELSE -1

FloatLess(a, b) ==
    /\ a.kind # "nan"
    /\ b.kind # "nan"
    /\ \/ FloatRank(a) < FloatRank(b)
       \/ FloatRank(a) = FloatRank(b) /\ a.kind = "finite" /\ a.tiny = b.tiny /\ a.u < b.u
       \/ FloatRank(a) = 0 /\ FloatRank(b) = 0 /\ a.tiny # b.tiny
             /\ (IF a.tiny THEN a.u < 0 ELSE b.u > 0)

\* ------------------------------------------------- HTTP responses (GET price)

\* What the transport hands back for one request: a connection error, a
\* timeout, or a status with a body. A body is invalid JSON, a JSON array, or
\* a JSON object, of which only the "price" member is read.
PriceBody(json, price) == [json |-> json, price |-> price]

Resp(net, status, body) == [net |-> net, status |-> status, body |-> body]

PriceValues == {JAbsent, JNull, JNum(600, 0), JNum(0, 0), JStr("abc"), JStr("600"), JList(1)}

\* more numbers a "price" member can hold: negative, fractional, at the
\* bottom of the range of a double, NaN, infinite
BookPriceValues ==
    PriceValues \cup {JNum(-600, 0), JNum(1, 0), JNum(600, 5), JTiny(1), JTiny(2), JTiny(-1),
                      JNaN, JInf}

PriceResponses ==
    {Resp("connerr", 0, PriceBody("invalid", JAbsent)),
     Resp("timeout", 0, PriceBody("invalid", JAbsent)),
     Resp("ok", 500, PriceBody("object", JNum(600, 0))),
     Resp("ok", 404, PriceBody("invalid", JAbsent)),
     Resp("ok", 200, PriceBody("invalid", JAbsent)),
     Resp("ok", 200, PriceBody("array", JAbsent)),
     Resp("ok", 200, PriceBody("object", JInf))}
    \cup {Resp("ok", 200, PriceBody("object", p)) : p \in PriceValues}

\* resp.raise_for_status(): ClientResponseError when status >= 400.
RaiseForStatus(resp) == IF resp.status >= 400 THEN "ClientResponseError" ELSE "none"

\* float(price) for a price that is not None.
FloatOf(v) ==
    CASE v.t = "num" -> [exc |-> "none", val |-> Finite((10 * v.n + v.d) * (PriceUnit \div 10))]
      [] v.t = "tiny" -> [exc |-> "none", val |-> Tiny(v.n * PriceUnit)]
      [] v.t = "nan" -> [exc |-> "none", val |-> NaN]
      [] v.t = "inf" -> [exc |-> "none", val |-> Infinity]
      [] v.t = "str" -> IF v.s \in DOMAIN NumericLiterals
                        THEN [exc |-> "none", val |-> Finite(NumericLiterals[v.s] * PriceUnit)]
                        ELSE [exc |-> "ValueError", val |-> Finite(0)]
      [] OTHER -> [exc |-> "TypeError", val |-> Finite(0)]

\* ------------------------------------------------- _get_indicative_price

\* line 205: base, quote = pair.split("-") if "-" in pair else pair.split("/")
SplitPair(tp) == IF Contains(tp, "-") THEN Split(tp, "-") ELSE Split(tp, "/")

\* The unpacking into (base, quote) raises ValueError unless there are two parts.
\* (a split that takes what it finds of a pair and never raises)
UnpackPairLenient(tp) == "none"

UnpackPair(tp) == IF Len(SplitPair(tp)) = 2 THEN "none" ELSE "ValueError"

\* The body of the try block (lines 212-217) once the request has completed
\* with resp: the exception it raises ("none" when it returns) and its value.
PriceTryBody(resp) ==
    IF resp.net = "connerr" THEN [exc |-> "ClientConnectionError", ret |-> None]
    ELSE IF resp.net = "timeout" THEN [exc |-> "TimeoutError", ret |-> None]
    ELSE IF RaiseForStatus(resp) # "none" THEN [exc |-> RaiseForStatus(resp), ret |-> None]
    ELSE IF resp.body.json = "invalid" THEN [exc |-> "ContentTypeError", ret |-> None]
    ELSE IF resp.body.json = "array" THEN [exc |-> "AttributeError", ret |-> None]
    ELSE IF resp.body.price.t \in {"absent", "null"} THEN [exc |-> "none", ret |-> None]
    ELSE IF FloatOf(resp.body.price).exc # "none"
         THEN [exc |-> FloatOf(resp.body.price).exc, ret |-> None]
    ELSE [exc |-> "none", ret |-> Some(FloatOf(resp.body.price).val)]

\* "except Exception: return None" around an outcome of the try block.
PriceExcept(out) ==
    IF out.exc = "none" THEN out
    ELSE IF ExceptExceptionCatches(out.exc) THEN [exc |-> "none", ret |-> None]
    ELSE out

\* _get_indicative_price resumed from its await by resp.
GetIndicativePriceResume(resp) == PriceExcept(PriceTryBody(resp))

\* _get_indicative_price resumed from its await by a CancelledError.
GetIndicativePriceCancel == PriceExcept([exc |-> "CancelledError", ret |-> None])

\* ---------------------------------------------- _request_order_book_snapshot

\* (a spread of ratio on each side of mid instead of ratio / 2)
BuildBookFullSpread(tp, mid) ==
    LET half == mid.u \div SpreadDenominator IN
    [exc |-> "none", trading_pair |-> tp,
     bids |-> << <<[mid EXCEPT !.u = mid.u - half], 1>>, <<[mid EXCEPT !.u = mid.u - 2 * half], 2>> >>,
     asks |-> << <<[mid EXCEPT !.u = mid.u + half], 1>>, <<[mid EXCEPT !.u = mid.u + 2 * half], 2>> >>]

\* lines 136-152: the two levels on each side of the float mid; a level is
\* <<price, size>>, the sizes 1.0 and 2.0.
BuildBook(tp, mid) ==
    LET mid_d == DecimalOfStr(mid)
        half_spread == HalfSpread(mid_d)
        bid1 == DecimalAdd(mid_d, -1, half_spread)
        ask1 == DecimalAdd(mid_d, 1, half_spread)
        bid2 == DecimalAdd(mid_d, -2, half_spread)
        ask2 == DecimalAdd(mid_d, 2, half_spread)
    IN  IF bid1.exc # "none" \/ bid2.exc # "none"
        THEN [exc |-> "InvalidOperation", trading_pair |-> tp, bids |-> <<>>, asks |-> <<>>]
        ELSE [exc |-> "none", trading_pair |-> tp,
              bids |-> << <<FloatOfDecimal(bid1.val), 1>>, <<FloatOfDecimal(bid2.val), 2>> >>,
              asks |-> << <<FloatOfDecimal(ask1.val), 1>>, <<FloatOfDecimal(ask2.val), 2>> >>]

\* (a builder without line 133: Decimal("None") signals InvalidOperation)
RequestOrderBookSnapshotNoneRaises(tp, mid) ==
    IF ~mid.some THEN [exc |-> "InvalidOperation", trading_pair |-> tp, bids |-> <<>>, asks |-> <<>>]
    ELSE [exc |-> "none", trading_pair |-> tp,
          bids |-> << <<mid.val, 1>>, <<mid.val, 2>> >>,
          asks |-> << <<mid.val, 1>>, <<mid.val, 2>> >>]

\* (a builder that takes an absent price for 0.0)
RequestOrderBookSnapshotNoCheck(tp, mid) ==
    BuildBook(tp, IF mid.some THEN mid.val ELSE Finite(0))

\* lines 133-152, after the price fetch returned mid
RequestOrderBookSnapshot(tp, mid) ==
    IF ~mid.some THEN [exc |-> "none", trading_pair |-> tp, bids |-> <<>>, asks |-> <<>>]
    ELSE BuildBook(tp, mid.val)

\* DeluthiumOrderBook.snapshot_message_from_exchange(snapshot, timestamp,
\* metadata={"trading_pair": pair}): update_id defaults to int(timestamp).
SnapshotMessageFromExchange(snapshot, timestamp, pair) ==
    [type |-> "SNAPSHOT", trading_pair |-> pair, update_id |-> timestamp,
     bids |-> snapshot.bids, asks |-> snapshot.asks]

\* ------------------------------------------------------------ construction

\* The chain ids a component is constructed with: the supported ones, a
\* testnet, and two that name no chain.
ChainIds == {56, 8453, 1, 97, 999, 0}

\* DeluthiumAPIOrderBookDataSource.__init__ stores its arguments.
DataSourceInit(pairs, cid) ==
    [exc |-> "none", trading_pairs |-> pairs, chain_id |-> cid]

\* DeluthiumExchange.__init__ stores its arguments and an empty pair cache.
ExchangeObjectInit(key, cid, wallet, pairs) ==
    [exc |-> "none", api_key |-> key, chain_id |-> cid, wallet_address |-> wallet,
     trading_pairs |-> pairs, pair_cache |-> <<>>]

\* ------------------------------------------- listen_for_order_book_snapshots

VARIABLES
    trading_pairs,  \* self._trading_pairs of the data source
    pc,             \* the poller: idle, fetch, sleep, sleep_err, stopped, crashed
    idx,            \* the index in trading_pairs of the pair being fetched
    output,         \* the asyncio.Queue the snapshots are put on
    cancel,         \* Task.cancel(): no, pending (requested), delivered (thrown)
    cancelledAt,    \* where the poller was suspended when cancel was requested
    now,            \* time.time()
    cycle,          \* cycles started after the first
    emitted,        \* number of successful put_nowait calls
    priceCalls,     \* number of _get_indicative_price calls of the poller
    priceGets,      \* number of GET requests those calls issued
    cycleLog,       \* the GETs and PUTs of the current cycle, in order
    cyclePuts,      \* per PUT of the current cycle: the fetched price, the message
    lastExc,        \* the exception the poller's last step raised in the try block
    failures        \* number of cycles ended by the "except Exception" handler

\* the state of the task, and the history kept of it
taskVars == <<pc, idx, priceCalls, priceGets, cycleLog, lastExc, failures>>

sinkVars == <<output, emitted, cyclePuts>>

cancelVars == <<cancel, cancelledAt>>

pollerVars == <<trading_pairs, now, cycle, taskVars, sinkVars, cancelVars>>

\* DeluthiumExchange, and the calls made on it and on the data source
VARIABLES
    chain_id,        \* self._chain_id
    wallet_address,  \* self._wallet_address
    pair_cache,      \* self._pair_cache: key -> pair_info
    po,              \* the _place_order call
    gp,              \* a direct _get_indicative_price call (get_last_traded_prices)
    pop,             \* the _populate_pair_cache call
    lp,              \* the fetch_trading_pairs call
    ops              \* number of calls made so far

\* populated is history: the entries of the listings whose populate
\* call ran to the end of its loop
VARIABLES populated

exchangeVars == <<chain_id, wallet_address, pair_cache, populated, po, gp, pop, lp, ops>>

\* the rest of the data source, and the calls without a network request
VARIABLES
    source_chain_id,  \* self._chain_id of the data source
    streams,          \* listen_for_order_book_diffs and listen_for_trades
    ob,               \* the get_new_order_book call
    codec,            \* a symbol and its conversions
    cn,               \* the _place_cancel call
    lk                \* the _get_cached_pair call

\* the rest of the exchange object, and further calls on the connector
VARIABLES
    api_key,                 \* self._api_key
    exchange_trading_pairs,  \* self._trading_pairs of the exchange
    wt,                      \* a validate_chain_id and get_wrapped_token call
    ub,                      \* the _update_balances call
    populating,              \* _populate_pair_cache tasks awaiting their GET
    arrivals                 \* history: the listing of each response to them

moreVars == <<api_key, exchange_trading_pairs, wt, ub, populating, arrivals>>

callVars == <<source_chain_id, ob, codec, cn, lk, moreVars>>

vars == <<pollerVars, exchangeVars, streams, callVars>>

\* "A-B", "B/A", "AB", "A-B-A", "A-B/A"
PairAB == <<"A", "-", "B">>

PairBA == <<"B", "/", "A">>

PairNoSep == <<"A", "B">>

PairThree == <<"A", "-", "B", "-", "A">>

PairMixed == <<"A", "-", "B", "/", "A">>

\* The trading_pairs lists the data source is constructed with.
TradingPairConfigs ==
    {<<>>, <<PairAB>>, <<PairAB, PairBA>>, <<PairBA, PairMixed>>,
     <<PairAB, PairNoSep>>, <<PairThree, PairAB>>, <<PairAB, PairThree, PairBA>>}

Suspended == {"fetch", "sleep", "sleep_err"}

\* lines 174-178: what an exception raised inside the try block leads to.
\* CancelledError is re-raised; an Exception is logged and followed by the
\* sleep of the handler; anything else leaves the coroutine.
\* (a loop without the "except Exception" clause)
HandleCycleExceptionReraise(exc) ==
    IF exc = "CancelledError" THEN "stopped" ELSE "crashed"

\* (a loop whose "except Exception" clause came first and caught everything)
HandleCycleExceptionSwallow(exc) == "sleep_err"

\* (a handler that logs and goes on to the next cycle without its sleep)
HandleCycleExceptionNoSleep(exc) ==
    IF exc = "CancelledError" THEN "stopped"
    ELSE IF ExceptExceptionCatches(exc) THEN "idle"
    ELSE "crashed"

HandleCycleException(exc) ==
    IF exc = "CancelledError" THEN "stopped"
    ELSE IF ExceptExceptionCatches(exc) THEN "sleep_err"
    ELSE "crashed"

\* output.put_nowait(msg): QueueFull when the queue holds maxsize items.
\* (a put that drops the message when the queue is full)
PutNowaitDrop(q, msg) ==
    IF Len(q) >= QueueMax THEN [exc |-> "none", q |-> q]
    ELSE [exc |-> "none", q |-> Append(q, msg)]

PutNowait(q, msg) ==
    IF Len(q) >= QueueMax THEN [exc |-> "QueueFull", q |-> q]
    ELSE [exc |-> "none", q |-> Append(q, msg)]

\* An exception exc raised in the try block at lines 164-173.
Raise(exc) ==
    /\ pc' = HandleCycleException(exc)
    /\ idx' = 0
    /\ lastExc' = exc
    /\ failures' = failures + (IF HandleCycleException(exc) = "sleep_err" THEN 1 ELSE 0)

\* The run of the for loop from its i-th iteration to the next await, after
\* the events of this step so far (log): past the last pair, the sleep of
\* line 173; otherwise the call of _get_indicative_price(pair), which raises
\* at line 205 or issues its GET and awaits the response.
Advance(i, log) ==
    IF i > Len(trading_pairs)
    THEN /\ pc' = "sleep"
         /\ idx' = 0
         /\ cycleLog' = log
         /\ UNCHANGED <<priceCalls, priceGets, failures>>
         /\ lastExc' = "none"
    ELSE IF UnpackPair(trading_pairs[i]) # "none"
    THEN /\ Raise(UnpackPair(trading_pairs[i]))
         /\ cycleLog' = log
         /\ priceCalls' = priceCalls + 1
         /\ UNCHANGED priceGets
    ELSE /\ pc' = "fetch"
         /\ idx' = i
         /\ cycleLog' = Append(log, <<"GET", i>>)
         /\ priceCalls' = priceCalls + 1
         /\ priceGets' = priceGets + 1
         /\ lastExc' = "none"
         /\ UNCHANGED failures

\* The start of a cycle: the while loop enters the try block.
BeginCycle ==
    /\ Advance(1, <<>>)
    /\ cyclePuts' = <<>>
    /\ UNCHANGED <<trading_pairs, now, output, emitted>>

\* -------------------------- listen_for_order_book_diffs, listen_for_trades

StreamNames == {"diffs", "trades"}

\* The argument of asyncio.sleep: float("inf") in lines 186 and 192.
\* (a stream that sleeps the poll interval)
StreamSleepPollInterval == [finite |-> TRUE, seconds |-> 30]

StreamSleep == [finite |-> FALSE, seconds |-> 0]

\* A stream coroutine: its position, the cancel of its task, the delay of
\* the timer it sleeps on, and the output queue it was handed.
StreamIdle == [pc |-> "idle", cancel |-> "no", delay |-> StreamSleep, output |-> <<>>]

\* The host starts a stream: it runs to its only await, the sleep.
StreamStart ==
    /\ \E s \in StreamNames :
         /\ streams[s].pc = "idle"
         /\ streams' = [streams EXCEPT ![s].pc = "sleep", ![s].delay = StreamSleep]
    /\ UNCHANGED <<pollerVars, exchangeVars, callVars>>

\* The host calls Task.cancel() on the task of a stream.
StreamCancel ==
    /\ \E s \in StreamNames :
         /\ streams[s].pc = "sleep"
         /\ streams[s].cancel = "no"
         /\ streams' = [streams EXCEPT ![s].cancel = "pending"]
    /\ UNCHANGED <<pollerVars, exchangeVars, callVars>>

\* CancelledError is thrown at the sleep; nothing catches it.
StreamDeliverCancel ==
    /\ \E s \in StreamNames :
         /\ streams[s].cancel = "pending"
         /\ streams' = [streams EXCEPT ![s].cancel = "delivered", ![s].pc = "stopped"]
    /\ UNCHANGED <<pollerVars, exchangeVars, callVars>>

\* The timer of a sleeping stream fires: the sleep returns and the coroutine
\* runs off its end.
StreamSleepDone(s) ==
    /\ streams[s].pc = "sleep"
    /\ streams[s].cancel # "pending"
    /\ streams' = [streams EXCEPT ![s].pc = "returned"]
    /\ UNCHANGED <<pollerVars, exchangeVars, callVars>>

\* ------------------------------------------------------------ the poller

\* The host starts the coroutine.
Start ==
    /\ UNCHANGED <<exchangeVars, streams, callVars>>
    /\ pc = "idle"
    /\ BeginCycle
    /\ UNCHANGED <<cancelVars, cycle>>

\* _get_indicative_price has finished with outcome r ([exc, ret]) for the
\* pair idx: lines 132-152 and 166-172, then the next iteration.
AfterFetch(r) ==
    LET pair == trading_pairs[idx]
        snapshot == RequestOrderBookSnapshot(pair, r.ret)
        msg == SnapshotMessageFromExchange(snapshot, now, pair)
        put == PutNowait(output, msg)
    IN  IF r.exc # "none"
        THEN /\ Raise(r.exc)
             /\ UNCHANGED <<trading_pairs, now, sinkVars, priceCalls, priceGets, cycleLog>>
        ELSE IF snapshot.exc # "none"
        THEN /\ Raise(snapshot.exc)
             /\ UNCHANGED <<trading_pairs, now, sinkVars, priceCalls, priceGets, cycleLog>>
        ELSE IF put.exc # "none"
        THEN /\ Raise(put.exc)
             /\ UNCHANGED <<trading_pairs, now, sinkVars, priceCalls, priceGets, cycleLog>>
        ELSE /\ output' = put.q
             /\ emitted' = emitted + 1
             /\ cyclePuts' = Append(cyclePuts, [mid |-> r.ret, msg |-> msg])
             /\ Advance(idx + 1, Append(cycleLog, <<"PUT", idx>>))
             /\ UNCHANGED <<trading_pairs, now>>

\* The GET of the pair idx completes and the coroutine resumes.
FetchReturn ==
    /\ UNCHANGED <<exchangeVars, streams, callVars>>
    /\ pc = "fetch"
    /\ cancel # "pending"
    /\ \E resp \in PriceResponses : AfterFetch(GetIndicativePriceResume(resp))
    /\ UNCHANGED <<cancelVars, cycle>>

\* asyncio.sleep(POLL_INTERVAL) of line 173 or of line 178 elapses.
PollerSleepDone ==
    /\ UNCHANGED <<exchangeVars, streams, callVars>>
    /\ pc \in {"sleep", "sleep_err"}
    /\ cancel # "pending"
    /\ cycle < MaxCycles
    /\ cycle' = cycle + 1
    /\ BeginCycle
    /\ UNCHANGED cancelVars

\* The event loop fires a timer that is due, which a timer set for
\* loop.time() + inf never is, and resumes the task sleeping on it.
SleepDone ==
    \E task \in {"snapshots"} \cup StreamNames :
        IF task = "snapshots" THEN PollerSleepDone
        ELSE streams[task].delay.finite /\ StreamSleepDone(task)

\* The host calls Task.cancel() on the polling task.
CancelTask ==
    /\ UNCHANGED <<exchangeVars, streams, callVars>>
    /\ pc \in Suspended
    /\ cancel = "no"
    /\ cancel' = "pending"
    /\ cancelledAt' = pc
    /\ UNCHANGED <<trading_pairs, now, cycle, taskVars, sinkVars>>

\* The event loop resumes the task by throwing CancelledError at its await:
\* in _get_indicative_price (line 213), in the try block (line 173) or in
\* the handler (line 178).
DeliverCancel ==
    /\ UNCHANGED <<exchangeVars, streams, callVars>>
    /\ cancel = "pending"
    /\ cancel' = "delivered"
    /\ CASE pc = "fetch" -> AfterFetch(GetIndicativePriceCancel)
         [] pc = "sleep" ->
                /\ Raise("CancelledError")
                /\ UNCHANGED <<trading_pairs, now, sinkVars, priceCalls, priceGets, cycleLog>>
         [] pc = "sleep_err" ->
                /\ pc' = "stopped"
                /\ UNCHANGED <<trading_pairs, now, sinkVars, idx, priceCalls,
                               priceGets, cycleLog, lastExc, failures>>
    /\ UNCHANGED <<cancelledAt, cycle>>

\* The wall clock advances.
Tick ==
    /\ UNCHANGED <<exchangeVars, streams, callVars>>
    /\ now < MaxTime
    /\ now' = now + 1
    /\ UNCHANGED <<trading_pairs, cycle, taskVars, sinkVars, cancelVars>>

\* The system clock is set back (an NTP step, an operator): time.time()
\* reads the wall clock, which asyncio's sleeps do not follow.
ClockSetBack ==
    /\ UNCHANGED <<exchangeVars, streams, callVars>>
    /\ \E t \in 0..MaxTime :
         /\ t < now
         /\ now' = t
    /\ UNCHANGED <<trading_pairs, cycle, taskVars, sinkVars, cancelVars>>

\* The host takes a message off the queue.
Consume ==
    /\ UNCHANGED <<exchangeVars, streams, callVars>>
    /\ output # <<>>
    /\ output' = Tail(output)
    /\ UNCHANGED <<trading_pairs, now, cycle, taskVars, cancelVars, emitted, cyclePuts>>

PollerInit ==
    /\ \E pairs \in TradingPairConfigs, cid \in ChainIds :
         LET source == DataSourceInit(pairs, cid) IN
         /\ source.exc = "none"
         /\ trading_pairs = source.trading_pairs
         /\ source_chain_id = source.chain_id
    /\ pc = "idle"
    /\ idx = 0
    /\ output = <<>>
    /\ cancel = "no"
    /\ cancelledAt = "none"
    /\ now = 0
    /\ cycle = 0
    /\ emitted = 0
    /\ priceCalls = 0
    /\ priceGets = 0
    /\ cycleLog = <<>>
    /\ cyclePuts = <<>>
    /\ lastExc = "none"
    /\ failures = 0

PollerNext ==
    \/ Start
    \/ FetchReturn
    \/ SleepDone
    \/ CancelTask
    \/ DeliverCancel
    \/ Tick
    \/ Consume

\* The poller on a host whose system clock is corrected while it runs.
ClockNext ==
    \/ PollerNext
    \/ ClockSetBack

\* The three coroutines the host runs on one data source.
StreamsNext ==
    \/ PollerNext
    \/ StreamStart
    \/ StreamCancel
    \/ StreamDeliverCancel

\* ------------------------------------------------------ deluthium_constants

SUPPORTED_CHAINS == (56 :> "BSC") @@ (8453 :> "Base") @@ (1 :> "Ethereum")

DEFAULT_CHAIN_ID == 56

\* (a table that lacks the entry of Base)
WRAPPED_TOKENS_NoBase ==
    (56 :> "0xbb4CdB9CBd36B01bD1cBaEBF2De08d9173bc095c") @@
    (1 :> "0xC02aaA39b223FE8D0A0e5C4F27eAD9083C756Cc2")

WRAPPED_TOKENS ==
    (56 :> "0xbb4CdB9CBd36B01bD1cBaEBF2De08d9173bc095c") @@
    (8453 :> "0x4200000000000000000000000000000000000006") @@
    (1 :> "0xC02aaA39b223FE8D0A0e5C4F27eAD9083C756Cc2")

\* A description or a message is the tuple of its words and punctuation marks.
STRING_ERROR_CODES ==
    ("INVALID_API_KEY" :> <<"The", "API", "key", "provided", "is", "invalid", "or", "expired", ".">>) @@
    ("INSUFFICIENT_LIQUIDITY" :> <<"Not", "enough", "liquidity", "to", "fill", "the", "requested", "amount", ".">>) @@
    ("PAIR_NOT_SUPPORTED" :> <<"The", "requested", "trading", "pair", "is", "not", "supported", ".">>) @@
    ("QUOTE_EXPIRED" :> <<"The", "firm", "quote", "has", "expired", ".", "Request", "a", "new", "one", ".">>) @@
    ("RATE_LIMIT_EXCEEDED" :> <<"Too", "many", "requests", "-", "slow", "down", ".">>) @@
    ("CHAIN_NOT_SUPPORTED" :> <<"The", "specified", "chain", "ID", "is", "not", "supported", ".">>) @@
    ("INVALID_AMOUNT" :> <<"The", "amount", "provided", "is", "invalid", "(", "zero", "or", "negative", ")", ".">>) @@
    ("INTERNAL_ERROR" :> <<"An", "unexpected", "server-side", "error", "occurred", ".">>)

NUMERIC_ERROR_CODES ==
    (1001 :> <<"Invalid", "API", "key">>) @@
    (1002 :> <<"Insufficient", "liquidity">>) @@
    (1003 :> <<"Pair", "not", "supported">>) @@
    (1004 :> <<"Quote", "expired">>) @@
    (1005 :> <<"Rate", "limit", "exceeded">>) @@
    (1006 :> <<"Chain", "not", "supported">>) @@
    (1007 :> <<"Invalid", "amount">>) @@
    (5000 :> <<"Internal", "server", "error">>)

\* ----------------------------------------------------------- deluthium_utils

\* str.replace(a, b) for one-character a and b
Replace(s, a, b) == [i \in 1..Len(s) |-> IF s[i] = a THEN b ELSE s[i]]

convert_symbol_to_hummingbot(symbol) == Replace(symbol, "/", "-")

convert_symbol_to_deluthium(symbol) == Replace(symbol, "-", "/")

validate_chain_id(c) == c \in DOMAIN SUPPORTED_CHAINS

\* lines 81-86: ValueError unless the chain has a wrapped token
get_wrapped_token(c) ==
    IF c \notin DOMAIN WRAPPED_TOKENS THEN [exc |-> "ValueError", ret |-> ""]
    ELSE [exc |-> "none", ret |-> WRAPPED_TOKENS[c]]

\* ------------------------------------------------ _handle_response_errors

\* The body of a firm-quote response: invalid JSON, a JSON array, or a JSON
\* object with its errorCode, code and txHash members.
FirmBody(json, errorCode, code, txHash) ==
    [json |-> json, errorCode |-> errorCode, code |-> code, txHash |-> txHash]

NoError == [exc |-> "none", table |-> "none", msg |-> <<>>]

\* "x in d" for a dict d raises TypeError when x is a list (unhashable).
Unhashable(v) == v.t = "list"

\* int(x): truncation of a number, the value of a decimal literal.
IntOf(v) ==
    CASE v.t = "num" -> [exc |-> "none", val |-> v.n]
      [] v.t = "tiny" -> [exc |-> "none", val |-> 0]
      [] v.t = "nan" -> [exc |-> "ValueError", val |-> 0]
      [] v.t = "inf" -> [exc |-> "OverflowError", val |-> 0]
      [] v.t = "str" -> IF v.s \in DOMAIN NumericLiterals
                        THEN [exc |-> "none", val |-> NumericLiterals[v.s]]
                        ELSE [exc |-> "ValueError", val |-> 0]
      [] OTHER -> [exc |-> "TypeError", val |-> 0]

\* str(x) of a code, as the tokens of the message
CodeTokens(v) ==
    CASE v.t = "str" -> <<v.s>>
      [] v.t = "num" -> IF v.d = 0 THEN <<ToString(v.n)>>
                        ELSE <<ToString(v.n), ".", ToString(v.d)>>
      [] OTHER -> <<"[...]">>

\* lines 229-234
NumericCheck(data) ==
    IF ~Truthy(data.code) THEN NoError
    ELSE IF IntOf(data.code).exc # "none"
    THEN [exc |-> IntOf(data.code).exc, table |-> "none", msg |-> <<>>]
    ELSE IF IntOf(data.code).val \in DOMAIN NUMERIC_ERROR_CODES
    THEN [exc |-> "RuntimeError", table |-> "numeric",
          msg |-> <<"Deluthium", "API", "error", "[", "code">> \o CodeTokens(data.code)
                  \o <<"]", ":">> \o NUMERIC_ERROR_CODES[IntOf(data.code).val]]
    ELSE NoError

\* lines 221-226
StringCheck(data) ==
    IF ~Truthy(data.errorCode) THEN NoError
    ELSE IF Unhashable(data.errorCode) THEN [exc |-> "TypeError", table |-> "none", msg |-> <<>>]
    ELSE IF data.errorCode.t = "str" /\ data.errorCode.s \in DOMAIN STRING_ERROR_CODES
    THEN [exc |-> "RuntimeError", table |-> "string",
          msg |-> <<"Deluthium", "API", "error", "[">> \o CodeTokens(data.errorCode)
                  \o <<"]", ":">> \o STRING_ERROR_CODES[data.errorCode.s]]
    ELSE NoError

\* (the two checks in the other order)
HandleResponseErrorsNumericFirst(data) ==
    IF NumericCheck(data).exc # "none" THEN NumericCheck(data) ELSE StringCheck(data)

\* _handle_response_errors(data) for a dict data: the exception it raises.
HandleResponseErrors(data) ==
    IF StringCheck(data).exc # "none" THEN StringCheck(data) ELSE NumericCheck(data)

\* ------------------------------------------------------- DeluthiumExchange

\* ---------------------------------------------------------- _place_order

NoPayload ==
    [baseToken |-> <<>>, quoteToken |-> <<>>, side |-> "", amount |-> 0,
     chainId |-> 0, walletAddress |-> JAbsent]

NoFirmResp == Resp("none", 0, FirmBody("invalid", JAbsent, JAbsent, JAbsent))

PoIdle ==
    [pc |-> "idle", tp |-> <<>>, amount |-> 0, is_buy |-> FALSE, payload |-> NoPayload,
     posts |-> 0, resp |-> NoFirmResp, exc |-> "none", err |-> NoError,
     result |-> FirmBody("invalid", JAbsent, JAbsent, JAbsent)]

\* lines 148-156
FirmPayload(tp, amount, is_buy) ==
    LET parts == Split(convert_symbol_to_deluthium(tp), "/") IN
    [baseToken |-> parts[1], quoteToken |-> parts[2],
     side |-> IF is_buy THEN "buy" ELSE "sell",
     amount |-> amount, chainId |-> chain_id,
     walletAddress |-> IF wallet_address # "" THEN JStr(wallet_address) ELSE JAbsent]

\* lines 144-165: the call up to the POST. The unpacking of line 146 raises
\* ValueError unless the symbol splits in two.
PlaceOrderCall(Pairs, Amounts) ==
    /\ po.pc \in {"idle", "returned", "raised"}
    /\ ops < MaxOps
    /\ ops' = ops + 1
    /\ \E tp \in Pairs, amount \in Amounts, is_buy \in BOOLEAN :
         IF Len(Split(convert_symbol_to_deluthium(tp), "/")) # 2
         THEN po' = [PoIdle EXCEPT !.pc = "raised", !.tp = tp, !.amount = amount,
                                   !.is_buy = is_buy, !.exc = "ValueError"]
         ELSE po' = [PoIdle EXCEPT !.pc = "posting", !.tp = tp, !.amount = amount,
                                   !.is_buy = is_buy, !.posts = 1,
                                   !.payload = FirmPayload(tp, amount, is_buy)]
    /\ UNCHANGED <<pollerVars, streams, callVars, chain_id, wallet_address, pair_cache, populated, gp, pop, lp>>

\* lines 165-167 once the POST has completed with resp: the exception raised
\* in the try block. The status of the response is not looked at.
FirmTryBody(resp) ==
    IF resp.net = "connerr" THEN [exc |-> "ClientConnectionError", table |-> "none", msg |-> <<>>]
    ELSE IF resp.net = "timeout" THEN [exc |-> "TimeoutError", table |-> "none", msg |-> <<>>]
    ELSE IF resp.body.json = "invalid" THEN [exc |-> "ContentTypeError", table |-> "none", msg |-> <<>>]
    ELSE IF resp.body.json = "array" THEN [exc |-> "AttributeError", table |-> "none", msg |-> <<>>]
    ELSE HandleResponseErrors(resp.body)

\* The classes of aiohttp.ClientError among the exceptions of the model.
ClientErrors == {"ClientConnectionError", "ClientResponseError", "ContentTypeError"}

\* lines 176-178: "except aiohttp.ClientError" logs and re-raises.
\* (a handler that posts again)
OnClientErrorRetry(exc) == "retry"

OnClientError(exc) == "raise"

\* line 175: "return data"
ReturnDataWithoutTxHash(data) == [data EXCEPT !.txHash = JAbsent]

ReturnData(data) == data

\* The POST completes with resp and _place_order runs to its end.
PlaceOrderResume(Resps) ==
    /\ po.pc = "posting"
    /\ \E resp \in Resps :
         LET out == FirmTryBody(resp) IN
         IF out.exc = "none"
         THEN po' = [po EXCEPT !.pc = "returned", !.resp = resp,
                               !.result = ReturnData(resp.body)]
         ELSE IF out.exc \in ClientErrors /\ OnClientError(out.exc) = "retry"
         THEN po' = [po EXCEPT !.posts = @ + 1]
         ELSE po' = [po EXCEPT !.pc = "raised", !.resp = resp, !.exc = out.exc,
                               !.err = out]
    /\ UNCHANGED <<pollerVars, streams, callVars, chain_id, wallet_address, pair_cache, populated, gp, pop, lp, ops>>

FirmErrorCodes == {JAbsent, JNull, JStr(""), JStr("QUOTE_EXPIRED"), JStr("INVALID_AMOUNT"),
                   JStr("NOT_A_CODE"), JNum(1004, 0), JList(0), JList(1)}

FirmCodes == {JAbsent, JNull, JNum(0, 0), JNum(1004, 0), JNum(5000, 0), JNum(7, 0),
              JNum(1004, 5), JStr("1004"), JStr("abc"), JStr(""), JList(1)}

FirmResponses ==
    {Resp("connerr", 0, FirmBody("invalid", JAbsent, JAbsent, JAbsent)),
     Resp("timeout", 0, FirmBody("invalid", JAbsent, JAbsent, JAbsent)),
     Resp("ok", 200, FirmBody("invalid", JAbsent, JAbsent, JAbsent)),
     Resp("ok", 502, FirmBody("invalid", JAbsent, JAbsent, JAbsent)),
     Resp("ok", 200, FirmBody("array", JAbsent, JAbsent, JAbsent)),
     Resp("ok", 500, FirmBody("object", JAbsent, JAbsent, JAbsent)),
     Resp("ok", 400, FirmBody("object", JStr("INVALID_AMOUNT"), JAbsent, JAbsent)),
     Resp("ok", 200, FirmBody("object", JAbsent, JAbsent, JAbsent))}
    \cup {Resp("ok", 200, FirmBody("object", e, c, JStr("0xabc"))) :
            e \in FirmErrorCodes, c \in FirmCodes}

OrderPairs == {PairAB, PairBA, PairNoSep, PairThree}

OrderAmounts == {1}

OrderNext ==
    \/ PlaceOrderCall(OrderPairs, OrderAmounts)
    \/ PlaceOrderResume(FirmResponses)

\* ---------------------------------------------------------- _place_cancel

\* lines 187-193: the warning is logged (logging swallows what formatting
\* its arguments raises) and False is returned.
\* (a cancel that looks the order up and fails for an unknown id)
PlaceCancelResultUnknownOrder(order_id, tp) ==
    IF order_id = "" THEN [exc |-> "KeyError", ret |-> FALSE] ELSE [exc |-> "none", ret |-> TRUE]

PlaceCancelResult(order_id, tp) == [exc |-> "none", ret |-> FALSE]

\* _place_cancel(order_id, trading_pair): it awaits nothing.
PlaceCancel ==
    /\ ops < MaxOps
    /\ ops' = ops + 1
    /\ \E order_id \in {"", "oid"}, tp \in {PairAB, PairNoSep} :
         LET out == PlaceCancelResult(order_id, tp) IN
         cn' = [pc |-> IF out.exc = "none" THEN "returned" ELSE "raised",
                order_id |-> order_id, tp |-> tp, exc |-> out.exc, ret |-> out.ret]
    /\ UNCHANGED <<pollerVars, streams, moreVars, source_chain_id, ob, codec, lk, chain_id,
                   wallet_address, pair_cache, populated, po, gp, pop, lp>>

\* ------------------------------------------------------- _update_balances

\* The fields of the exchange object set by __init__ (lines 73-80).
Self ==
    [api_key |-> api_key, chain_id |-> chain_id, wallet_address |-> wallet_address,
     trading_pairs |-> exchange_trading_pairs, pair_cache |-> pair_cache]

\* lines 199-207: a warning is logged; nothing is requested, nothing stored.
\* (an implementation that empties the pair cache to have it fetched again)
UpdateBalancesResultRefresh(self) ==
    [exc |-> "none", self |-> [self EXCEPT !.pair_cache = <<>>], requests |-> 0]

UpdateBalancesResult(self) == [exc |-> "none", self |-> self, requests |-> 0]

\* _update_balances(): it awaits nothing.
UpdateBalances ==
    /\ ops < MaxOps
    /\ ops' = ops + 1
    /\ LET out == UpdateBalancesResult(Self) IN
         /\ api_key' = out.self.api_key
         /\ chain_id' = out.self.chain_id
         /\ wallet_address' = out.self.wallet_address
         /\ exchange_trading_pairs' = out.self.trading_pairs
         /\ pair_cache' = out.self.pair_cache
         /\ ub' = [pc |-> IF out.exc = "none" THEN "returned" ELSE "raised",
                   exc |-> out.exc, requests |-> out.requests]
    /\ UNCHANGED <<pollerVars, streams, source_chain_id, ob, codec, cn, lk, wt, populating,
                   arrivals, populated, po, gp, pop, lp>>

\* ------------------------------------- a direct _get_indicative_price call

GpIdle == [pc |-> "idle", tp |-> <<>>, gets |-> 0, chainId |-> 0, exc |-> "none", ret |-> None]

PairEmpty == <<>>

PairDash == <<"-">>

\* every shape of pair string: one separator, none, several, both, empty
PairStrings == {PairAB, PairBA, PairNoSep, PairThree, PairMixed, PairEmpty, PairDash}

\* lines 200-213: the call up to the GET, whose params carry self._chain_id;
\* line 205 is outside the try block.
GetPriceCall(Pairs) ==
    /\ gp.pc # "getting"
    /\ ops < MaxOps
    /\ ops' = ops + 1
    /\ \E tp \in Pairs :
         IF UnpackPair(tp) # "none"
         THEN gp' = [GpIdle EXCEPT !.pc = "raised", !.tp = tp, !.exc = UnpackPair(tp)]
         ELSE gp' = [GpIdle EXCEPT !.pc = "getting", !.tp = tp, !.gets = 1,
                                   !.chainId = source_chain_id]
    /\ UNCHANGED <<pollerVars, streams, callVars, chain_id, wallet_address, pair_cache, populated, po, pop, lp>>

\* The GET completes with resp: lines 214-220.
GetPriceResume(Resps) ==
    /\ gp.pc = "getting"
    /\ \E resp \in Resps :
         LET r == GetIndicativePriceResume(resp) IN
         IF r.exc = "none"
         THEN gp' = [gp EXCEPT !.pc = "returned", !.ret = r.ret]
         ELSE gp' = [gp EXCEPT !.pc = "raised", !.exc = r.exc]
    /\ UNCHANGED <<pollerVars, streams, callVars, chain_id, wallet_address, pair_cache, populated, po, pop, lp, ops>>

\* ------------------------------------------------------------ idle calls

CodecIdle == [pc |-> "idle", symbol |-> <<>>, once |-> <<>>, twice |-> <<>>]

CnIdle == [pc |-> "idle", order_id |-> "", tp |-> <<>>, exc |-> "none", ret |-> FALSE]

WtIdle == [pc |-> "idle", chain_id |-> 0, valid |-> FALSE, exc |-> "none", ret |-> ""]

UbIdle == [pc |-> "idle", exc |-> "none", requests |-> 0]

LkIdle == [pc |-> "idle", tp |-> <<>>, ret |-> None]

\* ------------------------------------------------------ symbol conversion

\* Every string of letters and separators up to SymbolMaxLen characters.
Symbols == UNION {[1..n -> {"A", "B", "-", "/"}] : n \in 0..SymbolMaxLen}

\* convert_symbol_to_hummingbot then convert_symbol_to_deluthium of a venue
\* symbol, or the two in the other order of a host symbol.
ConvertSymbol ==
    /\ \E symbol \in Symbols, from \in {"venue", "host"} :
         LET once == IF from = "venue" THEN convert_symbol_to_hummingbot(symbol)
                     ELSE convert_symbol_to_deluthium(symbol)
             twice == IF from = "venue" THEN convert_symbol_to_deluthium(once)
                      ELSE convert_symbol_to_hummingbot(once)
         IN  codec' = [pc |-> from, symbol |-> symbol, once |-> once, twice |-> twice]
    /\ UNCHANGED <<pollerVars, streams, moreVars, source_chain_id, ob, cn, lk, exchangeVars>>

\* ---------------------------------------------------- the chain helpers

HelperChainIds == (-1..ChainIdMax) \cup {8452, 8453, 8454}

\* validate_chain_id(c) and get_wrapped_token(c) of one chain id
CheckChain ==
    /\ \E c \in HelperChainIds :
         LET token == get_wrapped_token(c) IN
         wt' = [pc |-> IF token.exc = "none" THEN "returned" ELSE "raised",
                chain_id |-> c, valid |-> validate_chain_id(c),
                exc |-> token.exc, ret |-> token.ret]
    /\ UNCHANGED <<pollerVars, streams, source_chain_id, ob, codec, cn, lk, exchangeVars,
                   api_key, exchange_trading_pairs, ub, populating, arrivals>>

\* ------------------------------------------------------ get_new_order_book

NoSnapshot == [exc |-> "none", trading_pair |-> <<>>, bids |-> <<>>, asks |-> <<>>]

ObIdle ==
    [pc |-> "idle", tp |-> <<>>, gets |-> 0, mid |-> None, snapshot |-> NoSnapshot,
     exc |-> "none"]

\* lines 118 and 132, then 200-213: the call up to the GET of the price
NewOrderBookCall(Pairs) ==
    /\ ob.pc # "getting"
    /\ ops < MaxOps
    /\ ops' = ops + 1
    /\ \E tp \in Pairs :
         IF UnpackPair(tp) # "none"
         THEN ob' = [ObIdle EXCEPT !.pc = "raised", !.tp = tp, !.exc = UnpackPair(tp)]
         ELSE ob' = [ObIdle EXCEPT !.pc = "getting", !.tp = tp, !.gets = 1]
    /\ UNCHANGED <<pollerVars, streams, moreVars, source_chain_id, codec, cn, lk, chain_id,
                   wallet_address, pair_cache, populated, po, gp, pop, lp>>

\* The GET completes with resp: the price is returned to line 132 and the
\* book is built (lines 133-152).
NewOrderBookResume(Resps) ==
    /\ ob.pc = "getting"
    /\ \E resp \in Resps :
         LET r == GetIndicativePriceResume(resp)
             snapshot == RequestOrderBookSnapshot(ob.tp, r.ret)
         IN  IF r.exc # "none"
             THEN ob' = [ob EXCEPT !.pc = "raised", !.exc = r.exc]
             ELSE IF snapshot.exc # "none"
             THEN ob' = [ob EXCEPT !.pc = "raised", !.mid = r.ret, !.exc = snapshot.exc]
             ELSE ob' = [ob EXCEPT !.pc = "returned", !.mid = r.ret, !.snapshot = snapshot]
    /\ UNCHANGED <<pollerVars, streams, moreVars, source_chain_id, codec, cn, lk, exchangeVars>>

BookResponses ==
    {Resp("connerr", 0, PriceBody("invalid", JAbsent)),
     Resp("ok", 500, PriceBody("object", JNum(600, 0))),
     Resp("ok", 200, PriceBody("invalid", JAbsent))}
    \cup {Resp("ok", 200, PriceBody("object", p)) : p \in BookPriceValues}

BookNext ==
    \/ NewOrderBookCall(PairStrings)
    \/ NewOrderBookResume(BookResponses)

\* ------------------------------------------------------- the pair listing

\* A member of "pairs": a JSON object with its symbol (absent, null or a
\* string) and the rest of its metadata (meta), or a JSON string.
Sym(t, chars) == [t |-> t, chars |-> chars]

PairInfo(kind, symbol, meta) == [kind |-> kind, symbol |-> symbol, meta |-> meta]

\* The body of a listing response; pairs is absent, null or the list items.
ListBody(json, pairs, items) == [json |-> json, pairs |-> pairs, items |-> items]

InfoAB(meta) == PairInfo("object", Sym("str", <<"A", "/", "B">>), meta)

InfoBA(meta) == PairInfo("object", Sym("str", <<"B", "/", "A">>), meta)

ListingResponses ==
    {Resp("connerr", 0, ListBody("invalid", "absent", <<>>)),
     Resp("timeout", 0, ListBody("invalid", "absent", <<>>)),
     Resp("ok", 500, ListBody("object", "list", <<InfoAB(1)>>)),
     Resp("ok", 200, ListBody("invalid", "absent", <<>>)),
     Resp("ok", 200, ListBody("array", "absent", <<>>)),
     Resp("ok", 200, ListBody("object", "absent", <<>>)),
     Resp("ok", 200, ListBody("object", "null", <<>>)),
     Resp("ok", 200, ListBody("object", "list", <<InfoAB(1)>>)),
     Resp("ok", 200, ListBody("object", "list", <<InfoAB(2), InfoBA(1)>>)),
     Resp("ok", 200, ListBody("object", "list", <<InfoBA(2), PairInfo("string", Sym("absent", <<>>), 0)>>)),
     Resp("ok", 200, ListBody("object", "list", <<InfoAB(2), PairInfo("object", Sym("null", <<>>), 1)>>)),
     Resp("ok", 200, ListBody("object", "list", <<PairInfo("object", Sym("absent", <<>>), 1)>>))}

\* lines 112-114 (90-92): the exception raised before the pairs are looked at
ListingTryHead(resp) ==
    IF resp.net = "connerr" THEN "ClientConnectionError"
    ELSE IF resp.net = "timeout" THEN "TimeoutError"
    ELSE IF RaiseForStatus(resp) # "none" THEN RaiseForStatus(resp)
    ELSE IF resp.body.json = "invalid" THEN "ContentTypeError"
    ELSE IF resp.body.json = "array" THEN "AttributeError"
    ELSE IF resp.body.pairs = "null" THEN "TypeError"
    ELSE "none"

\* data.get("pairs", [])
PairsOf(body) == IF body.pairs = "list" THEN body.items ELSE <<>>

\* _pair_cache_key: f"{chain_id}:{trading_pair}"
PairCacheKey(tp) == <<chain_id, tp>>

\* lines 115-119 from the i-th item on: the cache written so far and the
\* exception that ended the loop.
RECURSIVE PopulateLoop(_, _, _)
PopulateLoop(cache, items, i) ==
    IF i > Len(items) THEN [exc |-> "none", cache |-> cache]
    ELSE IF items[i].kind # "object" THEN [exc |-> "AttributeError", cache |-> cache]
    ELSE IF items[i].symbol.t = "null" THEN [exc |-> "AttributeError", cache |-> cache]
    ELSE LET symbol == IF items[i].symbol.t = "absent" THEN <<>> ELSE items[i].symbol.chars
             key == PairCacheKey(convert_symbol_to_hummingbot(symbol))
         IN  PopulateLoop((key :> items[i]) @@ cache, items, i + 1)

\* lines 113-119 once the GET has completed with resp, on the entries cache
PopulateOutcome(cache, resp) ==
    IF ListingTryHead(resp) # "none" THEN [exc |-> ListingTryHead(resp), cache |-> cache]
    ELSE PopulateLoop(cache, PairsOf(resp.body), 1)

PopIdle == [pc |-> "idle", gets |-> 0, exc |-> "none"]

\* self._pair_cache.get(self._pair_cache_key(trading_pair)) for the entries
\* cache
CachedPair(cache, tp) ==
    IF PairCacheKey(tp) \in DOMAIN cache THEN Some(cache[PairCacheKey(tp)]) ELSE None

\* _get_cached_pair(trading_pair)
GetCachedPair ==
    /\ ops < MaxOps
    /\ ops' = ops + 1
    /\ \E tp \in {PairAB, PairBA, <<"A", "/", "B">>} :
         lk' = [pc |-> "returned", tp |-> tp, ret |-> CachedPair(pair_cache, tp)]
    /\ UNCHANGED <<pollerVars, streams, moreVars, source_chain_id, ob, codec, cn, chain_id,
                   wallet_address, pair_cache, populated, po, gp, pop, lp>>

\* lines 105-112: the call up to the GET
PopulateCall ==
    /\ pop.pc # "getting"
    /\ ops < MaxOps
    /\ ops' = ops + 1
    /\ pop' = [PopIdle EXCEPT !.pc = "getting", !.gets = 1]
    /\ UNCHANGED <<pollerVars, streams, callVars, chain_id, wallet_address, pair_cache, populated, po, gp, lp>>

\* The GET completes with resp: lines 113-121. The exception is logged.
PopulateResume(Resps) ==
    /\ pop.pc = "getting"
    /\ \E resp \in Resps :
         LET out == PopulateOutcome(pair_cache, resp)
         IN  /\ pair_cache' = out.cache
             /\ populated' = IF out.exc = "none"
                             THEN PopulateLoop(populated, PairsOf(resp.body), 1).cache
                             ELSE populated
             /\ pop' = [pop EXCEPT !.pc = IF out.exc = "none" \/ ExceptExceptionCatches(out.exc)
                                         THEN "done" ELSE "raised",
                                   !.exc = out.exc]
    /\ UNCHANGED <<pollerVars, streams, callVars, chain_id, wallet_address, po, gp, lp, ops>>

\* The host creates a task for _populate_pair_cache(), also while others
\* are under way: it runs to its GET (lines 105-112).
PopulateSpawn ==
    /\ ops < MaxOps
    /\ ops' = ops + 1
    /\ populating' = populating + 1
    /\ UNCHANGED <<pollerVars, streams, source_chain_id, ob, codec, cn, lk, api_key,
                   exchange_trading_pairs, wt, ub, arrivals, chain_id, wallet_address,
                   pair_cache, populated, po, gp, pop, lp>>

\* The GET of one of those tasks completes with resp and the task runs to
\* its end (lines 113-121): the loop over the listing awaits nothing.
PopulateArrive(Resps) ==
    /\ populating > 0
    /\ populating' = populating - 1
    /\ \E resp \in Resps :
         LET out == PopulateOutcome(pair_cache, resp) IN
         /\ pair_cache' = out.cache
         /\ populated' = IF out.exc = "none" THEN PopulateOutcome(populated, resp).cache
                         ELSE populated
         /\ arrivals' = Append(arrivals, resp)
    /\ UNCHANGED <<pollerVars, streams, source_chain_id, ob, codec, cn, lk, api_key,
                   exchange_trading_pairs, wt, ub, chain_id, wallet_address, po, gp, pop,
                   lp, ops>>

\* more listings: a malformed item between two well-formed ones
CacheListings ==
    ListingResponses \cup
    {Resp("ok", 200, ListBody("object", "list",
                              <<InfoAB(3), PairInfo("string", Sym("absent", <<>>), 0), InfoBA(3)>>))}

\* lines 93-95: [p.get("symbol", "") for p in data.get("pairs", [])]
RECURSIVE SymbolsOf(_, _)
SymbolsOf(items, i) ==
    IF i > Len(items) THEN [exc |-> "none", list |-> <<>>]
    ELSE IF items[i].kind # "object" THEN [exc |-> "AttributeError", list |-> <<>>]
    ELSE LET rest == SymbolsOf(items, i + 1)
             symbol == IF items[i].symbol.t = "absent" THEN Sym("str", <<>>)
                       ELSE items[i].symbol
         IN  IF rest.exc # "none" THEN rest
             ELSE [exc |-> "none", list |-> <<symbol>> \o rest.list]

LpIdle == [pc |-> "idle", gets |-> 0, exc |-> "none", result |-> <<>>]

\* fetch_trading_pairs, lines 83-90: the call up to the GET
FetchTradingPairsCall ==
    /\ lp.pc # "getting"
    /\ ops < MaxOps
    /\ ops' = ops + 1
    /\ lp' = [LpIdle EXCEPT !.pc = "getting", !.gets = 1]
    /\ UNCHANGED <<pollerVars, streams, callVars, chain_id, wallet_address, pair_cache, populated, po, gp, pop>>

\* The GET completes with resp: lines 91-99.
FetchTradingPairsResume(Resps) ==
    /\ lp.pc = "getting"
    /\ \E resp \in Resps :
         LET out == IF ListingTryHead(resp) # "none"
                    THEN [exc |-> ListingTryHead(resp), list |-> <<>>]
                    ELSE SymbolsOf(PairsOf(resp.body), 1)
         IN  lp' = [lp EXCEPT !.pc = IF out.exc = "none" \/ ExceptExceptionCatches(out.exc)
                                     THEN "returned" ELSE "raised",
                              !.exc = out.exc,
                              !.result = IF out.exc = "none" THEN out.list ELSE <<>>]
    /\ UNCHANGED <<pollerVars, streams, callVars, chain_id, wallet_address, pair_cache, populated, po, gp, pop, ops>>

\* ------------------------------------------------------- specifications

ExchangeInit ==
    /\ \E cid \in ChainIds, wallet \in {"", "0xW"} :
         LET exchange == ExchangeObjectInit("key", cid, wallet, <<<<"A", "-", "B">>>>) IN
         /\ exchange.exc = "none"
         /\ api_key = exchange.api_key
         /\ exchange_trading_pairs = exchange.trading_pairs
         /\ chain_id = exchange.chain_id
         /\ wallet_address = exchange.wallet_address
         /\ pair_cache = exchange.pair_cache
    /\ populated = <<>>
    /\ po = PoIdle
    /\ gp = GpIdle
    /\ pop = PopIdle
    /\ lp = LpIdle
    /\ ops = 0

\* The network calls of the connector, interleaved at their awaits.
CallsFirmResponses ==
    {Resp("connerr", 0, FirmBody("invalid", JAbsent, JAbsent, JAbsent)),
     Resp("timeout", 0, FirmBody("invalid", JAbsent, JAbsent, JAbsent)),
     Resp("ok", 502, FirmBody("invalid", JAbsent, JAbsent, JAbsent)),
     Resp("ok", 200, FirmBody("object", JStr("QUOTE_EXPIRED"), JAbsent, JAbsent)),
     Resp("ok", 200, FirmBody("object", JAbsent, JAbsent, JStr("0xabc")))}

CallsNext ==
    \/ PlaceOrderCall({PairAB, PairNoSep}, OrderAmounts)
    \/ PlaceOrderResume(CallsFirmResponses)
    \/ GetPriceCall(PairStrings)
    \/ GetPriceResume(PriceResponses)
    \/ PopulateCall
    \/ PopulateResume(ListingResponses)
    \/ FetchTradingPairsCall
    \/ FetchTradingPairsResume(ListingResponses)
    \/ PlaceCancel
    \/ UpdateBalances
    \/ GetCachedPair

ExchangeNext ==
    \/ PlaceOrderCall(OrderPairs, OrderAmounts)
    \/ PlaceOrderResume(FirmResponses)
    \/ GetPriceCall(PairStrings)
    \/ GetPriceResume(PriceResponses)
    \/ PopulateCall
    \/ PopulateResume(ListingResponses)
    \/ FetchTradingPairsCall
    \/ FetchTradingPairsResume(ListingResponses)
    \/ PlaceCancel
    \/ UpdateBalances
    \/ GetCachedPair

CallsInit ==
    /\ streams = [s \in StreamNames |-> StreamIdle]
    /\ ob = ObIdle
    /\ codec = CodecIdle
    /\ cn = CnIdle
    /\ lk = LkIdle
    /\ wt = WtIdle
    /\ ub = UbIdle
    /\ populating = 0
    /\ arrivals = <<>>

Init == PollerInit /\ ExchangeInit /\ CallsInit

\* both components on the default chain
DefaultChain == chain_id = DEFAULT_CHAIN_ID /\ source_chain_id = DEFAULT_CHAIN_ID

InitPoller == Init /\ DefaultChain /\ wallet_address = ""

InitOrder == Init /\ DefaultChain /\ trading_pairs = <<>>

InitCalls == Init /\ DefaultChain /\ trading_pairs = <<>> /\ wallet_address = ""

Next ==
    \/ StreamsNext
    \/ ClockSetBack
    \/ ExchangeNext
    \/ BookNext
    \/ ConvertSymbol
    \/ CheckChain
    \/ PopulateSpawn
    \/ PopulateArrive(CacheListings)

\* The whole connector. The data source's poller and the calls of the
\* exchange share no state, so each is also checked on its own.
Spec == Init /\ [][Next]_vars

\* The book builder alone, over every price of the model.
SpecBook == InitCalls /\ [][BookNext]_vars

\* The symbol conversions alone, over every symbol of the model.
SpecCodec == InitCalls /\ [][ConvertSymbol]_vars

\* Populate tasks running concurrently, and the lookups between them.
CacheNext ==
    \/ PopulateSpawn
    \/ PopulateArrive(CacheListings)
    \/ GetCachedPair

SpecCache == InitCalls /\ [][CacheNext]_vars

\* The chain helpers alone, over every chain id of the model.
SpecTokens == InitCalls /\ [][CheckChain]_vars

\* The snapshot poller of one pair with the diff and the trade stream.
InitStreams == InitPoller /\ trading_pairs = <<PairAB>>

SpecStreams == InitStreams /\ [][StreamsNext]_vars

\* Requests of components constructed with any chain id of the model.
InitChain == Init /\ trading_pairs = <<>> /\ wallet_address = ""

ChainNext ==
    \/ PlaceOrderCall({PairAB}, OrderAmounts)
    \/ PlaceOrderResume(CallsFirmResponses)
    \/ GetPriceCall({PairAB, PairBA})
    \/ GetPriceResume(PriceResponses)

SpecChain == InitChain /\ [][ChainNext]_vars

\* The amounts a caller passes to _place_order: positive, zero, negative.
QuoteAmounts == {1, 0, -1}

\* The pair strings a caller passes: those of PairStrings, "A-A" and "A-".
QuotePairs == PairStrings \cup {<<"A", "-", "A">>, <<"A", "-">>}

\* _place_order over every shape of pair string and every amount.
QuoteNext ==
    \/ PlaceOrderCall(QuotePairs, QuoteAmounts)
    \/ PlaceOrderResume(CallsFirmResponses)

SpecQuote == InitOrder /\ [][QuoteNext]_vars

SpecClock == InitPoller /\ [][ClockNext]_vars

\* The snapshot poller alone, the system clock running forward.
SpecPoller == InitPoller /\ [][PollerNext]_vars

\* _place_order alone, over every response of the model.
SpecOrder == InitOrder /\ [][OrderNext]_vars

\* The calls that reach the network, interleaved.
SpecCalls == InitCalls /\ [][CallsNext]_vars

\* ------------------------------------------------------------ the poller

\* C1: once Task.cancel() has been called on the running poller, no snapshot
\* is put on the output queue in any later step, the step that delivers the
\* CancelledError included, also when the poller was awaiting the GET of a
\* pair of the current cycle.
C1_NoSnapshotAfterCancel ==
    [][cancel # "no" => emitted' = emitted /\ Len(output') <= Len(output)]_vars

C1_Witness ==
    /\ cancel = "delivered"
    /\ cancelledAt = "fetch"
    /\ pc = "stopped"
    /\ emitted > 0

\* C2: an exception other than CancelledError raised in a cycle never ends
\* the task: the poller is never left by an exception, it stops only when a
\* cancellation is delivered, an exception raised in the try block leaves it
\* in the sleep of the handler, and from that sleep the next step it takes
\* starts another cycle.
C2_FailuresNeverTerminate ==
    [][/\ pc' # "crashed"
       /\ (pc # "stopped" /\ pc' = "stopped" => cancel = "pending")
       /\ (lastExc' \notin {"none", "CancelledError"}
             => pc' = "sleep_err" \/ (pc' = "stopped" /\ cancel' = "delivered"))
       /\ (failures' > failures => pc' = "sleep_err")
       /\ (pc = "sleep_err" /\ priceCalls' # priceCalls
             => cycle' = cycle + 1 /\ priceCalls' = priceCalls + 1)]_vars

C2_Witness ==
    /\ failures >= 2
    /\ pc = "fetch"
    /\ cancel = "no"

\* C3: the poller moves idle -> running (fetch, sleep, sleep_err) -> stopped
\* only; it stops only by a delivered cancellation; a cancellation requested
\* while it is in a fetch, in the sleep between cycles or in the sleep after
\* a failed cycle stops it with no further GET and no further snapshot; once
\* stopped it takes no step.
C3_StateMachine ==
    [][/\ (pc = "idle" => pc' \in {"idle"} \cup Suspended)
       /\ (pc \in Suspended => pc' \in Suspended \cup {"stopped"})
       /\ (pc = "stopped" => taskVars' = taskVars /\ emitted' = emitted)
       /\ (pc # "stopped" /\ pc' = "stopped"
             => cancel = "pending" /\ cancel' = "delivered")
       /\ (cancel = "pending"
             => \/ cancel' = "pending" /\ taskVars' = taskVars
                \/ /\ cancel' = "delivered"
                   /\ pc' = "stopped"
                   /\ priceGets' = priceGets
                   /\ priceCalls' = priceCalls
                   /\ emitted' = emitted)]_vars

C3_Witness ==
    /\ pc = "stopped"
    /\ cancelledAt = "sleep_err"
    /\ cycle >= 1

\* The k-th event of a cycle that fetches and puts pair after pair.
CyclePattern(k) == IF k % 2 = 1 THEN <<"GET", (k + 1) \div 2>> ELSE <<"PUT", k \div 2>>

\* C10: the events of a cycle are GET 1, PUT 1, GET 2, PUT 2, ...: each
\* snapshot follows the fetch of its own pair and precedes the fetch of the
\* next; the i-th message put is a SNAPSHOT for the i-th configured pair, with
\* no bids and no asks when the price was absent; and a cycle that reaches
\* the sleep of line 173 (no exception) has put one message per pair.
C10_OneSnapshotPerPair ==
    /\ \A k \in 1..Len(cycleLog) : cycleLog[k] = CyclePattern(k)
    /\ Len(cyclePuts) = Len(cycleLog) \div 2
    /\ \A i \in 1..Len(cyclePuts) :
         /\ cyclePuts[i].msg.type = "SNAPSHOT"
         /\ cyclePuts[i].msg.trading_pair = trading_pairs[i]
         /\ (~cyclePuts[i].mid.some
               => cyclePuts[i].msg.bids = <<>> /\ cyclePuts[i].msg.asks = <<>>)
    /\ (pc = "sleep"
          => Len(cycleLog) = 2 * Len(trading_pairs) /\ Len(cyclePuts) = Len(trading_pairs))

C10_Witness ==
    /\ pc = "sleep"
    /\ Len(trading_pairs) >= 2
    /\ \E i, j \in 1..Len(cyclePuts) : ~cyclePuts[i].mid.some /\ cyclePuts[j].mid.some

\* ---------------------------------------------------------- _place_order

PoDone == po.pc \in {"returned", "raised"}

\* the call got a response whose body parsed to a JSON object
PoObjectBody == PoDone /\ po.resp.net = "ok" /\ po.resp.body.json = "object"

IsStringKey(v) == v.t = "str" /\ v.s \in DOMAIN STRING_ERROR_CODES

IsNumericKey(v) == v.t = "num" /\ v.d = 0 /\ v.n \in DOMAIN NUMERIC_ERROR_CODES

EndsWith(msg, tail) ==
    /\ Len(msg) >= Len(tail)
    /\ SubSeq(msg, Len(msg) - Len(tail) + 1, Len(msg)) = tail

C5_ReturnsOnlyOnTransportSuccess ==
    po.pc = "returned" => po.resp.net = "ok" /\ po.resp.status \in 200..299

\* C6: a response object whose errorCode and code are both present and match
\* neither table makes the call return the response data.
C6_UnknownCodesPassThrough ==
    /\ PoObjectBody
    /\ po.resp.body.errorCode.t # "absent"
    /\ po.resp.body.code.t # "absent"
    /\ ~IsStringKey(po.resp.body.errorCode)
    /\ ~IsNumericKey(po.resp.body.code)
    => po.pc = "returned" /\ po.result = po.resp.body

\* C7: a response object with neither an errorCode nor a code member makes
\* the call return exactly the object received.
C7_NoCodesRawPayload ==
    /\ PoObjectBody
    /\ po.resp.body.errorCode.t = "absent"
    /\ po.resp.body.code.t = "absent"
    => po.pc = "returned" /\ po.result = po.resp.body

C7_Witness ==
    /\ po.pc = "returned"
    /\ po.resp.body.errorCode.t = "absent"
    /\ po.resp.body.code.t = "absent"
    /\ po.result.txHash = JStr("0xabc")

\* ------------------------------------------------------ the network calls

\* C8: no call issues more than one request: at most one POST per
\* _place_order, one GET per _get_indicative_price, one listing GET per
\* _populate_pair_cache and per fetch_trading_pairs, and a call that has
\* ended issues none.
C8_NoRetry ==
    /\ po.posts <= 1
    /\ gp.gets <= 1
    /\ pop.gets <= 1
    /\ lp.gets <= 1
    /\ (po.pc = "posting" => po.posts = 1)
    /\ (gp.pc = "raised" /\ gp.exc = "ValueError" => gp.gets = 0)

C8_Witness ==
    /\ po.pc = "raised" /\ po.exc = "ClientConnectionError" /\ po.posts = 1
    /\ gp.pc = "returned" /\ ~gp.ret.some /\ gp.gets = 1
    /\ pop.pc = "done" /\ pop.exc = "TimeoutError" /\ pop.gets = 1

\* C9: _get_indicative_price never raises, whatever the pair string and
\* whatever the outcome of the GET.
C9_GetPriceNeverRaises == gp.pc # "raised"

\* ------------------------------------------------------ the synthetic book

\* C11: every snapshot on the output queue that has a bid and an ask has its
\* best bid below its best ask.
C11_BestBidBelowBestAsk ==
    \A i \in 1..Len(output) :
        output[i].bids # <<>> /\ output[i].asks # <<>>
            => FloatLess(output[i].bids[1][1], output[i].asks[1][1])

ObBuilt == ob.pc = "returned" /\ ob.mid.some

\* C12: the book built from a mid-price m > 0 has
\* bid2 < bestBid < m < bestAsk < ask2, so its bids descend and its asks
\* ascend strictly.
C12_StrictLadder ==
    ObBuilt /\ FloatLess(Finite(0), ob.mid.val) =>
        /\ FloatLess(ob.snapshot.bids[2][1], ob.snapshot.bids[1][1])
        /\ FloatLess(ob.snapshot.bids[1][1], ob.mid.val)
        /\ FloatLess(ob.mid.val, ob.snapshot.asks[1][1])
        /\ FloatLess(ob.snapshot.asks[1][1], ob.snapshot.asks[2][1])

\* C13: when the price fetch returns None, the builder raises nothing and
\* returns a book for the requested pair with no bid and no ask.
C13_AbsentPriceEmptyBook ==
    ob.pc \in {"returned", "raised"} /\ ob.gets = 1 /\ ~ob.mid.some =>
        /\ ob.pc = "returned"
        /\ ob.snapshot.trading_pair = ob.tp
        /\ ob.snapshot.bids = <<>>
        /\ ob.snapshot.asks = <<>>

C13_Witness ==
    /\ ob.pc = "returned"
    /\ ob.tp = PairBA
    /\ ~ob.mid.some
    /\ ob.snapshot.bids = <<>>

\* the double nearest to u units on the scale of m
NearestTo(m, u) == IF m.tiny THEN Tiny(RoundHalfEven(u, PriceUnit)) ELSE Finite(u)

WellFormed(symbol, sep) ==
    LET parts == Split(symbol, sep) IN
    Len(parts) = 2 /\ parts[1] # <<>> /\ parts[2] # <<>> /\ parts[1] # parts[2]

\* C15: converting a well-formed venue symbol (one "/") to the host notation
\* and back gives the symbol again, and so does converting a well-formed
\* host symbol (one "-") to the venue notation and back, also when a token
\* holds the separator of the other notation.
C15_CodecRoundTrip ==
    /\ codec.pc = "venue" /\ WellFormed(codec.symbol, "/") => codec.twice = codec.symbol
    /\ codec.pc = "host" /\ WellFormed(codec.symbol, "-") => codec.twice = codec.symbol

\* ---------------------------------------------------------- _place_cancel

\* C16: _place_cancel never raises and returns False, whatever the order id
\* and the pair, whatever calls were made before it.
C16_CancelReturnsFalse ==
    /\ cn.pc # "raised"
    /\ cn.pc = "returned" => cn.ret = FALSE /\ cn.exc = "none"

C16_Witness ==
    /\ cn.pc = "returned"
    /\ cn.order_id = ""
    /\ cn.tp = PairNoSep
    /\ po.pc = "returned"
    /\ pop.pc = "done"
    /\ pair_cache # <<>>

\* -------------------------- listen_for_order_book_diffs, listen_for_trades

\* C17: a stream, once started, stays in its sleep until a cancellation is
\* delivered to it: it never returns, never fails, puts nothing on its output
\* queue, and stops only by the cancellation; every message the data source
\* puts on a queue is a SNAPSHOT message.
C17_StreamsStaySuspended ==
    [][/\ \A s \in StreamNames :
            /\ streams'[s].pc \in {"idle", "sleep", "stopped"}
            /\ streams'[s].output = <<>>
            /\ (streams[s].pc = "sleep" => streams'[s].pc \in {"sleep", "stopped"})
            /\ (streams[s].pc # "stopped" /\ streams'[s].pc = "stopped"
                  => streams[s].cancel = "pending")
            /\ (streams[s].pc = "stopped" => streams'[s] = streams[s])
       /\ \A i \in 1..Len(output') : output'[i].type = "SNAPSHOT"]_vars

C17_Witness ==
    /\ streams["diffs"].pc = "sleep"
    /\ streams["trades"].pc = "stopped"
    /\ cycle >= 1
    /\ emitted >= 2
    /\ output # <<>>

\* ------------------------------------------------------------ pair cache

\* C18: a lookup returns the entry of the most recent populate that ran to
\* its end without an exception and listed the pair, None if there was none;
\* it changes nothing and issues no request.
C18_LookupMostRecentPopulate ==
    [][lk' # lk =>
         /\ lk'.ret = CachedPair(populated, lk'.tp)
         /\ pair_cache' = pair_cache
         /\ <<po, gp, pop, lp>>' = <<po, gp, pop, lp>>]_vars

\* C19: a listing call never raises: whatever fails in it, fetch_trading_pairs
\* returns the empty list and _populate_pair_cache returns.
C19_ListingFailuresSwallowed ==
    /\ lp.pc # "raised"
    /\ pop.pc # "raised"
    /\ lp.pc = "returned" /\ lp.exc # "none" => lp.result = <<>>
    /\ pop.pc # "getting" /\ pop.exc # "none" => pop.pc = "done"

C19_Witness ==
    /\ lp.pc = "returned"
    /\ lp.exc = "ClientResponseError"
    /\ lp.result = <<>>
    /\ pop.pc = "done"
    /\ pop.exc = "TimeoutError"

\* -------------------------------------------------------------- chain id

\* C20: no component exists with a chain id outside SUPPORTED_CHAINS (its
\* construction is rejected), so every firm-quote POST and every indicative
\* GET that is issued carries a supported chain id.
C20_RequestsCarrySupportedChain ==
    /\ po.posts > 0 => validate_chain_id(po.payload.chainId)
    /\ gp.gets > 0 => validate_chain_id(gp.chainId)

\* ------------------------------------------------------------ validation

\* C21: every firm-quote POST carries an amount above zero and the base and
\* the quote of a well-formed pair (one separator, both tokens non-empty and
\* different); a call with another amount or pair raises before any POST.
C21_PostsAreValidated ==
    po.posts > 0 =>
        /\ po.payload.amount > 0
        /\ WellFormed(po.tp, "-") \/ WellFormed(po.tp, "/")
        /\ po.payload.baseToken # po.payload.quoteToken

\* ------------------------------------------------- the poller's scheduling

\* C22: the poller has at most one GET in flight (it is suspended at one
\* await): a step issues at most one GET; a GET issued while one is in
\* flight is issued by the step that completes that one, for the next pair,
\* after putting the snapshot of the completed one on the queue; a GET
\* issued from a sleep is the first of the cycle that the end of the sleep
\* starts; a sleeping or stopped poller issues none.
C22_OneFetchInFlight ==
    [][/\ priceGets' \in {priceGets, priceGets + 1}
       /\ (priceGets' = priceGets + 1 => pc' = "fetch")
       /\ (pc = "fetch" /\ priceGets' = priceGets + 1 =>
             /\ idx' = idx + 1
             /\ emitted' = emitted + 1
             /\ Len(output') = Len(output) + 1
             /\ SubSeq(output', 1, Len(output)) = output
             /\ output'[Len(output')].trading_pair = trading_pairs[idx])
       /\ (pc \in {"sleep", "sleep_err"} /\ priceGets' = priceGets + 1 =>
             cycle' = cycle + 1 /\ idx' = 1)
       /\ (pc \in {"sleep", "sleep_err", "stopped"} /\ cycle' = cycle =>
             priceGets' = priceGets)]_vars

C22_Witness ==
    /\ pc = "fetch"
    /\ idx = 2
    /\ cycle >= 1
    /\ emitted >= 3
    /\ priceGets >= 4

\* C25: cycles and sleeps alternate. A cycle after the first starts only in
\* the step that ends a sleep; the step that ends a cycle, by running past the
\* last pair or by an exception, starts a sleep (the one of line 173, or the
\* one of line 178 when an exception was raised), unless it is the delivery
\* of a cancellation; and a sleeping poller does nothing but start the next
\* cycle or stop: it never goes from one sleep into another.
C25_OneSleepBetweenCycles ==
    [][/\ (cycle' # cycle => cycle' = cycle + 1 /\ pc \in {"sleep", "sleep_err"})
       /\ (pc = "idle" /\ pc' # "idle" => cycle' = cycle /\ cycle = 0 /\ priceCalls = 0)
       /\ (pc = "fetch" => cycle' = cycle /\ pc' \in {"fetch", "sleep", "sleep_err", "stopped"})
       /\ (pc = "fetch" /\ pc' = "sleep" => lastExc' = "none" /\ idx = Len(trading_pairs))
       /\ (pc = "fetch" /\ pc' = "sleep_err" => lastExc' \notin {"none", "CancelledError"})
       /\ (pc = "fetch" /\ pc' = "stopped" => cancel = "pending")
       /\ (pc \in {"sleep", "sleep_err"} /\ cycle' = cycle =>
             pc' \in {pc, "stopped"} /\ priceCalls' = priceCalls)
       /\ (pc' = "idle" => pc = "idle")]_vars

C25_Witness ==
    /\ pc = "sleep"
    /\ cycle = 2
    /\ failures = 1
    /\ emitted >= 2

\* output is the front of later
IsPrefix(earlier, later) ==
    Len(earlier) <= Len(later) /\ SubSeq(later, 1, Len(earlier)) = earlier

\* the occurrences of the character c in s
Count(s, c) == Cardinality({i \in 1..Len(s) : s[i] = c})

\* s holds one "-", or no "-" and one "/"
Splits(s) == IF Count(s, "-") > 0 THEN Count(s, "-") = 1 ELSE Count(s, "/") = 1

\* C29: the step in which an exception ends a cycle takes nothing off the
\* output queue and leaves the cycle with the snapshots of the pairs before
\* the failing one only; while the poller sleeps in the handler no snapshot is
\* put; the step that ends that sleep starts the next cycle at the first
\* configured pair; and no snapshot is ever put for a pair string that does
\* not split into a base and a quote.
C29_FailedCycleKeepsEarlierSnapshots ==
    [][/\ (failures' > failures =>
             /\ pc' = "sleep_err"
             /\ idx' = 0
             /\ IsPrefix(output, output')
             /\ IsPrefix(cyclePuts, cyclePuts')
             /\ Len(output') - Len(output) = Len(cyclePuts') - Len(cyclePuts)
             /\ Len(cyclePuts') < Len(trading_pairs)
             /\ (lastExc' = "QueueFull" => output' = output /\ Len(cyclePuts') = idx - 1))
       /\ (pc = "sleep_err" => emitted' = emitted /\ cyclePuts' \in {cyclePuts, <<>>})
       /\ (pc = "sleep_err" /\ cycle' # cycle =>
             /\ priceCalls' = priceCalls + 1
             /\ cyclePuts' = <<>>
             /\ (pc' = "fetch" => idx' = 1 /\ cycleLog' = <<<<"GET", 1>>>>)
             /\ (pc' # "fetch" => pc' = "sleep_err" /\ cycleLog' = <<>>))
       /\ \A i \in 1..Len(output') : Splits(output'[i].trading_pair)]_vars

C29_Witness ==
    /\ pc = "sleep_err"
    /\ lastExc = "QueueFull"
    /\ Len(cyclePuts) = 1
    /\ cycle >= 1
    /\ Len(output) = QueueMax

\* C23: of two snapshots for one pair on the output queue, the later one
\* carries an update_id at least that of the earlier one.
C23_UpdateIdsMonotonic ==
    \A i, j \in 1..Len(output) :
        i < j /\ output[i].trading_pair = output[j].trading_pair
            => output[i].update_id <= output[j].update_id

\* ------------------------------------------------- calls that change nothing

ObjectFields == <<api_key, chain_id, wallet_address, exchange_trading_pairs, pair_cache>>

\* C26: a step of _place_cancel or of _update_balances leaves the API key,
\* the chain id, the wallet address, the trading pairs and the pair cache as
\* they are, issues no request and returns; a step of _place_order leaves
\* those fields as they are too: nothing of the quote is kept on the object.
C26_NoOpsOnState ==
    [][/\ (cn' # cn \/ ub' # ub =>
             /\ ObjectFields' = ObjectFields
             /\ <<po, gp, pop, lp, priceGets>>' = <<po, gp, pop, lp, priceGets>>)
       /\ (cn' # cn => cn'.pc = "returned")
       /\ (ub' # ub => ub'.pc = "returned" /\ ub'.requests = 0)
       /\ (po' # po => ObjectFields' = ObjectFields)]_vars

C26_Witness ==
    /\ pair_cache # <<>>
    /\ cn.pc = "returned"
    /\ ub.pc = "returned"

\* ------------------------------------------------- the cache under populates

\* an item of a listing that can be stored: an object whose symbol is not null
Storable(item) == item.kind = "object" /\ item.symbol.t # "null"

\* every storable item of items written into cache, in order
RECURSIVE WholeListing(_, _, _)
WholeListing(cache, items, i) ==
    IF i > Len(items) THEN cache
    ELSE IF ~Storable(items[i]) THEN WholeListing(cache, items, i + 1)
    ELSE LET symbol == IF items[i].symbol.t = "absent" THEN <<>> ELSE items[i].symbol.chars
             key == PairCacheKey(convert_symbol_to_hummingbot(symbol))
         IN  WholeListing((key :> items[i]) @@ cache, items, i + 1)

\* the listings of resps from the k-th on applied to cache one after another,
\* each as a whole where applied[k] and not at all otherwise
RECURSIVE OneAfterAnother(_, _, _, _)
OneAfterAnother(cache, resps, applied, k) ==
    IF k > Len(resps) THEN cache
    ELSE OneAfterAnother(IF applied[k] /\ ListingTryHead(resps[k]) = "none"
                         THEN WholeListing(cache, PairsOf(resps[k].body), 1)
                         ELSE cache,
                         resps, applied, k + 1)

\* C27: whenever a lookup can run (between the steps of the populate tasks),
\* the pair cache holds, of the listing of every response that has arrived,
\* all the entries or none: it is the cache that results from applying those
\* listings, each whole or not at all, one after another in the order of
\* arrival.
C27_NoPartlyAppliedListing ==
    \E applied \in [1..Len(arrivals) -> BOOLEAN] :
        pair_cache = OneAfterAnother(<<>>, arrivals, applied, 1)

\* C28: a populate call that ends with an exception (raised by the GET, by
\* reading the body or by the loop over the listing) leaves the pair cache as
\* it was before the call.
C28_PopulateAllOrNothing ==
    [][pop' # pop /\ pop'.exc # "none" => pair_cache' = pair_cache]_vars

\* ------------------------------------------------------ the chain helpers

\* C24: validate_chain_id(c) is true exactly for 56, 8453 and 1;
\* get_wrapped_token(c) returns the address of the chain's wrapped token
\* exactly when validate_chain_id(c) is true and raises ValueError
\* otherwise; 56 is accepted and 999 rejected by both.
C24_ChainHelpersAgree ==
    wt.pc # "idle" =>
        /\ wt.valid <=> wt.chain_id \in {56, 8453, 1}
        /\ wt.pc = "returned" <=> wt.valid
        /\ wt.pc = "returned" => wt.exc = "none" /\ wt.ret # ""
        /\ wt.pc = "raised" => wt.exc = "ValueError"
        /\ wt.chain_id = 56 => wt.valid /\ wt.pc = "returned"
        /\ wt.chain_id = 999 => ~wt.valid /\ wt.pc = "raised"

C24_Witness ==
    /\ wt.chain_id = 999
    /\ wt.pc = "raised"
    /\ wt.exc = "ValueError"
    /\ ~wt.valid

====
